---- MODULE Spec2Model ----
(***************************************************************************)
(* A model of libc/syslog/lib_syslog.c: syslog(), vsyslog() and            *)
(* vsyslog_internal().                                                     *)
(*                                                                         *)
(* The build configuration (the preprocessor symbols the file tests) is    *)
(* fixed for a whole behaviour and ranges over every combination.  One     *)
(* logging call is followed at a time, and it is followed as it executes   *)
(* from task context and as it executes from an interrupt handler, side by *)
(* side (run["task"], run["interrupt"]): two executions standing at the    *)
(* same statement take it together and are given the same answers by the   *)
(* clock, the sink and the mask, so that what the execution context        *)
(* changes -- and what it does not -- is visible in a single state.        *)
(* setlogmask() may run at any moment, between any two statements.         *)
(* Every call is followed from syslog(); a direct call of vsyslog() is the *)
(* same execution up to vsyslog's return.                                  *)
(***************************************************************************)
EXTENDS Integers, Sequences, FiniteSets, TLC

VARIABLES
    cfg,            \* the build configuration (preprocessor symbols)
    g_syslog_mask,  \* the shared severity mask
    priority,       \* the priority argument of the call being followed
    run,            \* per execution context: the locals and position of the call
    env,            \* what the clock and the sink have answered during the call
    maskHist        \* the values g_syslog_mask has held since the call began

vars == <<cfg, g_syslog_mask, priority, run, env, maskHist>>

----------------------------------------------------------------------------
(* Bounds *)

MaxUpdates == 1     \* setlogmask() calls followed per logging call

----------------------------------------------------------------------------
(* Bit arithmetic on non-negative integers *)

RECURSIVE Pow2(_)
Pow2(n) == IF n = 0 THEN 1 ELSE 2 * Pow2(n - 1)

RECURSIVE BitAnd(_, _)
BitAnd(a, b) ==
    IF a = 0 \/ b = 0 THEN 0
    ELSE (IF a % 2 = 1 /\ b % 2 = 1 THEN 1 ELSE 0) + 2 * BitAnd(a \div 2, b \div 2)

RECURSIVE BitOr(_, _)
BitOr(a, b) ==
    IF a = 0 THEN b
    ELSE IF b = 0 THEN a
    ELSE (IF a % 2 = 1 \/ b % 2 = 1 THEN 1 ELSE 0) + 2 * BitOr(a \div 2, b \div 2)

----------------------------------------------------------------------------
(* Domains *)

Context == {"task", "interrupt"}

Configs == [SYSLOG : BOOLEAN,           \* defined(CONFIG_SYSLOG)
            NFILE : BOOLEAN,            \* CONFIG_NFILE_DESCRIPTORS > 0
            LOWPUTC : BOOLEAN,          \* defined(CONFIG_ARCH_LOWPUTC)
            FLAT_OR_KERNEL : BOOLEAN,   \* CONFIG_BUILD_FLAT || __KERNEL__
            TIMESTAMP : BOOLEAN]        \* defined(CONFIG_SYSLOG_TIMESTAMP)

----------------------------------------------------------------------------
(* The severity mask *)

\* LOG_MASK(p) of include/syslog.h: 1 << p
LOG_MASK(p) == Pow2(p)

\* LOG_UPTO(p) of include/syslog.h: (1 << (p + 1)) - 1
LOG_UPTO(p) == Pow2(p + 1) - 1

\* LOG_ALL of include/syslog.h, the value g_syslog_mask is defined with:
\* the eight levels LOG_EMERG .. LOG_DEBUG
LOG_ALL == Pow2(8) - 1

\* The inputs followed: priorities LOG_EMERG, LOG_ERR and LOG_DEBUG, and the
\* masks nothing, LOG_ERR alone, up to LOG_ERR, everything.
Priorities == {0, 3, 7}
Masks      == {0, LOG_MASK(3), LOG_UPTO(3), LOG_ALL}

\* line 195, got wrong: | for &
PriorityEnabled_or(mask, pri) == BitOr(mask, LOG_MASK(pri)) /= 0

\* line 195: (g_syslog_mask & LOG_MASK(priority)) != 0
PriorityEnabled(mask, pri) == BitAnd(mask, LOG_MASK(pri)) /= 0

----------------------------------------------------------------------------
(* The backend the preprocessor binds *)

\* lines 67-73 and 92-145: which stream vsyslog_internal wraps
BoundSink(c) ==
    IF c.SYSLOG THEN "StructuredSink"                \* lib_syslogstream
    ELSE IF c.NFILE THEN "RawDescriptorSink"         \* lib_rawoutstream(.., 1)
    ELSE IF c.LOWPUTC THEN "LowLevelConsoleSink"     \* lib_lowoutstream
    ELSE "NullSink"                                  \* return 0

\* line 166, got wrong: the test on CONFIG_SYSLOG lost
InterruptGuardCompiled_nfile(c) == c.NFILE

\* line 166, got wrong: the ! in front of defined(CONFIG_SYSLOG) lost
InterruptGuardCompiled_syslog(c) == c.SYSLOG /\ c.NFILE

\* line 166: #if !defined(CONFIG_SYSLOG) && CONFIG_NFILE_DESCRIPTORS > 0
InterruptGuardCompiled(c) == ~c.SYSLOG /\ c.NFILE

\* line 172, got wrong: the test inverted
up_interrupt_context_inverted(ctx) == ctx /= "interrupt"

\* line 172: up_interrupt_context()
up_interrupt_context(ctx) == ctx = "interrupt"

\* lines 174-188, got wrong: the test of line 181 left out
LowFallbackCompiled_lowputc(c) == c.LOWPUTC

\* lines 174 and 181: lowvsyslog() is called when CONFIG_ARCH_LOWPUTC is
\* defined and this is the flat build or the kernel pass
LowFallbackCompiled(c) == c.LOWPUTC /\ c.FLAT_OR_KERNEL

----------------------------------------------------------------------------
(* The timestamp *)

\* What clock_systimespec() can answer: its result and what it left in ts.
ClockTimes == {[tv_sec |-> 0, tv_nsec |-> 999],
               [tv_sec |-> 12, tv_nsec |-> 345678999]}
Clocks     == [ret : {-1, 0}, ts : ClockTimes]
NoTime     == [tv_sec |-> -1, tv_nsec |-> -1]     \* ts not assigned

\* line 83, got wrong: the result of clock_systimespec not tested
TimerUnavailable_hwonly(hwReady, clockRet) == ~hwReady

\* line 83: !OSINIT_HW_READY() || clock_systimespec(&ts) < 0
TimerUnavailable(hwReady, clockRet) == ~hwReady \/ clockRet < 0

\* line 83: || evaluates clock_systimespec only when OSINIT_HW_READY()
ClockConsulted(hwReady) == hwReady

\* lines 83-89: ts after the block; clockTs is what clock_systimespec left
\* in ts (anything at all when it failed)
Timestamp(hwReady, clockRet, clockTs) ==
    IF TimerUnavailable(hwReady, clockRet)
    THEN [tv_sec |-> 0, tv_nsec |-> 0]
    ELSE clockTs

DigitChar == <<"0", "1", "2", "3", "4", "5", "6", "7", "8", "9">>

RECURSIVE Decimal(_)
Decimal(n) ==
    IF n < 10 THEN DigitChar[n + 1]
    ELSE Decimal(n \div 10) \o DigitChar[(n % 10) + 1]

RECURSIVE PadLeft(_, _, _)
PadLeft(s, width, ch) ==
    IF Len(s) >= width THEN s ELSE PadLeft(ch \o s, width, ch)

\* lines 102-103: "[%6d.%06d]", ts.tv_sec, ts.tv_nsec/1000
PrefixText(ts) ==
    "[" \o PadLeft(Decimal(ts.tv_sec), 6, " ") \o "."
        \o PadLeft(Decimal(ts.tv_nsec \div 1000), 6, "0") \o "]"

----------------------------------------------------------------------------
(* One execution of the call *)

\* The locals of vsyslog/vsyslog_internal and what the execution has done.
IdleRun(c) ==
    [ctx        |-> c,          \* the execution context of this execution
     pc         |-> "idle",     \* the statement it stands at
     ret        |-> 0,          \* vsyslog's local ret
     vresult    |-> 0,          \* the value vsyslog returned
     result     |-> 0,          \* the value syslog returned
     stream     |-> "none",     \* the sink the stream object wraps
     ts         |-> NoTime,     \* vsyslog_internal's local ts
     writes     |-> <<>>,       \* the sink writes issued, in order
     maskReads  |-> <<>>,       \* the values read from g_syslog_mask
     ctxReads   |-> 0,          \* calls of up_interrupt_context()
     clockReads |-> 0,          \* calls of clock_systimespec()
     internal   |-> FALSE,      \* vsyslog_internal was entered
     lowcalls   |-> 0,          \* calls of lowvsyslog()
     lowret     |-> 0,          \* the value lowvsyslog returned
     steps      |-> 0,          \* statements taken since the call began
     outcome    |-> "none"]     \* Delivered, Dropped or SuppressedByMask

Write(sink, kind, text, res) ==
    [sink |-> sink, kind |-> kind, text |-> text, res |-> res]

\* lines 220-228 and 162-164: syslog hands over to vsyslog, ret = 0
vsyslog_enter(r) == [r EXCEPT !.pc = "guard", !.ret = 0]

\* lines 166-191: the interrupt-context test in front of the mask test
vsyslog_guard(r, c) ==
    IF InterruptGuardCompiled(c)
    THEN LET q == [r EXCEPT !.ctxReads = @ + 1]
         IN  IF up_interrupt_context(r.ctx)
             THEN IF LowFallbackCompiled(c)
                  THEN [q EXCEPT !.pc = "lowvsyslog"]
                  ELSE [q EXCEPT !.pc = "return", !.outcome = "Dropped"]
             ELSE [q EXCEPT !.pc = "maskcheck"]
    ELSE [r EXCEPT !.pc = "maskcheck"]

\* line 195, got wrong: the branch not taken on the test's result
AfterMaskCheck_always(enabled) == "internal"

\* lines 195-200: where the mask test leads
AfterMaskCheck(enabled) == IF enabled THEN "internal" ELSE "return"

\* lines 193-200: one read of g_syslog_mask, then vsyslog_internal or nothing
vsyslog_maskcheck(r, mask, pri) ==
    LET next == AfterMaskCheck(PriorityEnabled(mask, pri))
    IN  [r EXCEPT !.maskReads = Append(@, mask),
                  !.pc = next,
                  !.outcome = IF next = "internal" THEN @ ELSE "SuppressedByMask"]

\* lines 75-90: the timestamp block, compiled under CONFIG_SYSLOG_TIMESTAMP
ReadTime(r, c, hwReady, clock) ==
    IF c.TIMESTAMP
    THEN [r EXCEPT !.clockReads = @ + (IF ClockConsulted(hwReady) THEN 1 ELSE 0),
                   !.ts = Timestamp(hwReady, clock.ret, clock.ts)]
    ELSE r

\* lines 65-97, 109-114, 125-130, 141-143: vsyslog_internal up to its first
\* write: the time is read, then the stream object is set up
vsyslog_internal_begin(r, c, hwReady, clock) ==
    LET q == [ReadTime(r, c, hwReady, clock) EXCEPT !.internal = TRUE,
                                                    !.stream = BoundSink(c)]
    IN  IF BoundSink(c) = "NullSink"
        THEN [q EXCEPT !.ret = 0, !.pc = "return", !.outcome = "Delivered"]
        ELSE [q EXCEPT !.pc = IF c.TIMESTAMP THEN "prefix" ELSE "main"]

\* lines 102-107, got wrong: the message given up when the prefix fails
AfterPrefix_bail(prefixRes) == IF prefixRes < 0 THEN "return" ELSE "main"

\* lines 102-107: (void)lib_sprintf(...), then the message whatever came back
AfterPrefix(prefixRes) == "main"

\* lines 99-105, 116-121, 132-137: the timestamp is written to the stream
vsyslog_internal_prefix(r, prefixFails) ==
    LET text == PrefixText(r.ts)
        res  == IF prefixFails THEN -1 ELSE Len(text)
    IN  [r EXCEPT !.writes = Append(@, Write(r.stream, "prefix", text, res)),
                  !.pc = AfterPrefix(res)]

\* lines 107, 123, 139, got wrong: the two results added up
InternalReturn_sum(prefixRes, mainRes) == prefixRes + mainRes

\* lines 107, 123, 139: return lib_vsprintf(stream, fmt, ap)
InternalReturn(prefixRes, mainRes) == mainRes

\* lines 107, 123, 139, got wrong: a failed write tried again
AfterMain_retry(mainRes) == IF mainRes < 0 THEN "main" ELSE "return"

\* lines 107, 123, 139 and 199: the result goes straight back to vsyslog
AfterMain(mainRes) == "return"

\* the result of the prefix write of this call, 0 when there was none
PrefixResult(r) ==
    IF \E i \in 1 .. Len(r.writes) : r.writes[i].kind = "prefix"
    THEN r.writes[CHOOSE i \in 1 .. Len(r.writes) : r.writes[i].kind = "prefix"].res
    ELSE 0

\* lines 107, 123, 139 and 199: the message is formatted into the stream and
\* ret = vsyslog_internal(fmt, ap)
vsyslog_internal_main(r, mainRet) ==
    [r EXCEPT !.writes = Append(@, Write(r.stream, "message", "fmt", mainRet)),
              !.ret = InternalReturn(PrefixResult(r), mainRet),
              !.outcome = "Delivered",
              !.pc = AfterMain(mainRet)]

\* lowvsyslog() of lib_lowsyslog.c, as the dispatcher's state machine
\* describes the fallback path: the mask test, then the optional timestamp
\* and the message on the low-level console; its result and effects
lowvsyslog(r, c, mask, pri, hwReady, clock, prefixFails, mainRet) ==
    LET q == [r EXCEPT !.maskReads = Append(@, mask), !.lowcalls = @ + 1]
    IN  IF PriorityEnabled(mask, pri)
        THEN LET t    == ReadTime(q, c, hwReady, clock)
                 text == PrefixText(t.ts)
                 pre  == IF c.TIMESTAMP
                         THEN <<Write("LowLevelConsoleSink", "prefix", text,
                                      IF prefixFails THEN -1 ELSE Len(text))>>
                         ELSE <<>>
             IN  [t EXCEPT !.stream = "LowLevelConsoleSink",
                           !.writes = pre \o <<Write("LowLevelConsoleSink",
                                                     "message", "fmt", mainRet)>>,
                           !.outcome = "Delivered",
                           !.lowret = mainRet]
        ELSE [q EXCEPT !.outcome = "SuppressedByMask", !.lowret = 0]

\* line 186: ret = lowvsyslog(priority, fmt, ap)
vsyslog_lowvsyslog(r, c, mask, pri, hwReady, clock, prefixFails, mainRet) ==
    LET q == lowvsyslog(r, c, mask, pri, hwReady, clock, prefixFails, mainRet)
    IN  [q EXCEPT !.ret = q.lowret, !.pc = "return"]

\* line 203: return ret
vsyslog_return(r) == [r EXCEPT !.pc = "syslog_return", !.vresult = r.ret]

\* lines 228-231: ret = vsyslog(priority, fmt, ap); va_end(ap); return ret
syslog_return(r) == [r EXCEPT !.pc = "done", !.result = r.vresult]

----------------------------------------------------------------------------
(* The environment of one call *)

\* What has been asked of the clock and the sink during the call, each a
\* set: empty until asked, then the one answer given.  Both executions of
\* the call are given the same answers.
Unasked == [hwReady |-> {}, clock |-> {}, prefixFails |-> {}, mainRet |-> {}]

MainRets == {-1, 0, 7}        \* lib_vsprintf(stream, fmt, ap) results

Answer(asked, domain) == IF asked = {} THEN domain ELSE asked

----------------------------------------------------------------------------
(* The state machine *)

Init ==
    /\ cfg \in Configs
    /\ g_syslog_mask = LOG_ALL
    /\ priority = 0
    /\ run = [c \in Context |-> IdleRun(c)]
    /\ env = Unasked
    /\ maskHist = <<LOG_ALL>>

At(pc) == \E c \in Context : run[c].pc = pc

Tick(r) == [r EXCEPT !.steps = @ + 1]

\* syslog(p, fmt, ...) is called; no call is in progress
Call(p) ==
    /\ \A c \in Context : run[c].pc \in {"idle", "done"}
    /\ priority' = p
    /\ run' = [c \in Context |-> vsyslog_enter(IdleRun(c))]
    /\ env' = Unasked
    /\ maskHist' = <<g_syslog_mask>>
    /\ UNCHANGED <<cfg, g_syslog_mask>>

\* Every execution standing at a statement takes it; the others wait.
Guard ==
    /\ At("guard")
    /\ run' = [c \in Context |->
                 IF run[c].pc = "guard" THEN Tick(vsyslog_guard(run[c], cfg)) ELSE run[c]]
    /\ UNCHANGED <<cfg, g_syslog_mask, priority, env, maskHist>>

MaskCheck ==
    /\ At("maskcheck")
    /\ run' = [c \in Context |->
                 IF run[c].pc = "maskcheck"
                 THEN Tick(vsyslog_maskcheck(run[c], g_syslog_mask, priority))
                 ELSE run[c]]
    /\ UNCHANGED <<cfg, g_syslog_mask, priority, env, maskHist>>

\* the answers the timestamp block asks for
TimeAsked(hw, ck) ==
    IF cfg.TIMESTAMP
    THEN [env EXCEPT !.hwReady = {hw},
                     !.clock = IF ClockConsulted(hw) THEN {ck} ELSE @]
    ELSE env

InternalBegin ==
    /\ At("internal")
    /\ \E hw \in Answer(env.hwReady, BOOLEAN), ck \in Answer(env.clock, Clocks) :
        /\ run' = [c \in Context |->
                     IF run[c].pc = "internal"
                     THEN Tick(vsyslog_internal_begin(run[c], cfg, hw, ck))
                     ELSE run[c]]
        /\ env' = TimeAsked(hw, ck)
    /\ UNCHANGED <<cfg, g_syslog_mask, priority, maskHist>>

InternalPrefix ==
    /\ At("prefix")
    /\ \E pf \in Answer(env.prefixFails, BOOLEAN) :
        /\ run' = [c \in Context |->
                     IF run[c].pc = "prefix"
                     THEN Tick(vsyslog_internal_prefix(run[c], pf))
                     ELSE run[c]]
        /\ env' = [env EXCEPT !.prefixFails = {pf}]
    /\ UNCHANGED <<cfg, g_syslog_mask, priority, maskHist>>

InternalMain ==
    /\ At("main")
    /\ \E mr \in Answer(env.mainRet, MainRets) :
        /\ run' = [c \in Context |->
                     IF run[c].pc = "main"
                     THEN Tick(vsyslog_internal_main(run[c], mr))
                     ELSE run[c]]
        /\ env' = [env EXCEPT !.mainRet = {mr}]
    /\ UNCHANGED <<cfg, g_syslog_mask, priority, maskHist>>

LowVsyslog ==
    /\ At("lowvsyslog")
    /\ \E hw \in Answer(env.hwReady, BOOLEAN), ck \in Answer(env.clock, Clocks),
          pf \in Answer(env.prefixFails, BOOLEAN), mr \in Answer(env.mainRet, MainRets) :
        /\ run' = [c \in Context |->
                     IF run[c].pc = "lowvsyslog"
                     THEN Tick(vsyslog_lowvsyslog(run[c], cfg, g_syslog_mask,
                                                  priority, hw, ck, pf, mr))
                     ELSE run[c]]
        /\ env' = IF PriorityEnabled(g_syslog_mask, priority)
                  THEN [TimeAsked(hw, ck) EXCEPT
                            !.prefixFails = IF cfg.TIMESTAMP THEN {pf} ELSE @,
                            !.mainRet = {mr}]
                  ELSE env
    /\ UNCHANGED <<cfg, g_syslog_mask, priority, maskHist>>

Return ==
    /\ At("return")
    /\ run' = [c \in Context |->
                 IF run[c].pc = "return" THEN Tick(vsyslog_return(run[c])) ELSE run[c]]
    /\ UNCHANGED <<cfg, g_syslog_mask, priority, env, maskHist>>

SyslogReturn ==
    /\ At("syslog_return")
    /\ run' = [c \in Context |->
                 IF run[c].pc = "syslog_return" THEN Tick(syslog_return(run[c])) ELSE run[c]]
    /\ UNCHANGED <<cfg, g_syslog_mask, priority, env, maskHist>>

\* setlogmask(m) of lib_setlogmask.c: the mask is replaced in one store
SetLogMask(m) ==
    /\ Len(maskHist) <= MaxUpdates
    /\ g_syslog_mask' = m
    /\ maskHist' = Append(maskHist, m)
    /\ UNCHANGED <<cfg, priority, run, env>>

CallStep ==
    \/ Guard
    \/ MaskCheck
    \/ InternalBegin
    \/ InternalPrefix
    \/ InternalMain
    \/ LowVsyslog
    \/ Return
    \/ SyslogReturn

Next ==
    \/ \E p \in Priorities : Call(p)
    \/ Guard
    \/ MaskCheck
    \/ InternalBegin
    \/ InternalPrefix
    \/ InternalMain
    \/ LowVsyslog
    \/ Return
    \/ SyslogReturn
    \/ \E m \in Masks : SetLogMask(m)

Spec == Init /\ [][Next]_vars

TypeOK ==
    /\ cfg \in Configs
    /\ g_syslog_mask \in Masks
    /\ \A c \in Context : run[c].ctx = c

----------------------------------------------------------------------------
(* Vocabulary of the properties *)

Done(c) == run[c].pc = "done"

\* bit p of mask, by division
Bit(mask, p) == (mask \div Pow2(p)) % 2 = 1

Range(q) == {q[i] : i \in DOMAIN q}

WritesOf(r, kind) == {i \in DOMAIN r.writes : r.writes[i].kind = kind}

RawBound == ~cfg.SYSLOG /\ cfg.NFILE

\* the call ended in a write of the message to a sink that is not the null one
DeliveredTo(r) == r.outcome = "Delivered" /\ r.stream /= "NullSink"

\* the result the formatted-output engine gave for the message
MessageResult(r) == r.writes[Len(r.writes)].res

ZeroPrefix == "[     0.000000]"

\* during this call the hardware was not ready, or the clock read failed
ClockBad ==
    \/ env.hwReady = {FALSE}
    \/ env.hwReady = {TRUE} /\ \E ck \in env.clock : ck.ret < 0

----------------------------------------------------------------------------
(* C1: a call whose priority bit is clear in the severity mask -- in the   *)
(* value it read, or in every value the mask held during the call --       *)
(* returns 0 from vsyslog and from syslog and issues no sink write, in     *)
(* every configuration and from both contexts.                             *)
C1_SuppressedReturnsZeroNoWrites ==
    \A c \in Context :
        LET r == run[c] IN
        (/\ Done(c)
         /\ \/ r.maskReads /= <<>> /\ ~Bit(r.maskReads[1], priority)
            \/ \A m \in Range(maskHist) : ~Bit(m, priority))
        => (r.result = 0 /\ r.vresult = 0 /\ r.writes = <<>>)

\* the interrupt-context call was handed to lowvsyslog and the task-context
\* call tested the mask itself, both with the priority's bit clear
C1_Witness ==
    /\ RawBound /\ cfg.LOWPUTC /\ cfg.FLAT_OR_KERNEL
    /\ Done("task") /\ Done("interrupt")
    /\ run["interrupt"].lowcalls = 1
    /\ run["task"].maskReads /= <<>> /\ ~Bit(run["task"].maskReads[1], priority)
    /\ run["interrupt"].maskReads /= <<>>
    /\ ~Bit(run["interrupt"].maskReads[1], priority)
    /\ run["task"].outcome = "SuppressedByMask"

(* C2: no write to the RawDescriptorSink is ever issued by the call made   *)
(* from interrupt context, and with the RawDescriptorSink bound that call  *)
(* never enters vsyslog_internal.                                          *)
C2_NoRawWriteFromInterrupt ==
    LET r == run["interrupt"] IN
    /\ \A i \in DOMAIN r.writes : r.writes[i].sink /= "RawDescriptorSink"
    /\ RawBound => ~r.internal /\ r.stream /= "RawDescriptorSink"

\* the same call wrote to the descriptor from task context, and went to the
\* low-level console from interrupt context
C2_Witness ==
    /\ RawBound
    /\ Done("task") /\ Done("interrupt")
    /\ \E i \in DOMAIN run["task"].writes :
           run["task"].writes[i].sink = "RawDescriptorSink"
    /\ run["interrupt"].ctxReads = 1
    /\ run["interrupt"].writes /= <<>>

(* C3: from interrupt context with the RawDescriptorSink bound and no      *)
(* CONFIG_ARCH_LOWPUTC, a call never reads the mask, never writes, and     *)
(* returns 0, whatever the priority and the mask.                          *)
C3_InterruptNoFallbackDropped ==
    LET r == run["interrupt"] IN
    (RawBound /\ ~cfg.LOWPUTC)
    => /\ r.writes = <<>> /\ r.maskReads = <<>> /\ r.lowcalls = 0 /\ ~r.internal
       /\ Done("interrupt") => r.result = 0 /\ r.vresult = 0 /\ r.outcome = "Dropped"

\* the priority was enabled all along and the task-context call delivered it
C3_Witness ==
    /\ RawBound /\ ~cfg.LOWPUTC
    /\ Done("task") /\ Done("interrupt")
    /\ \A m \in Range(maskHist) : Bit(m, priority)
    /\ run["task"].result = 7
    /\ run["interrupt"].result = 0

(* C4, as the specification states it: from interrupt context with the    *)
(* RawDescriptorSink bound, the call goes to the low-level console         *)
(* fallback whenever CONFIG_ARCH_LOWPUTC is defined, and is dropped only   *)
(* when it is not.                                                         *)
C4_FallbackWheneverLowputc ==
    LET r == run["interrupt"] IN
    (RawBound /\ Done("interrupt"))
    => /\ cfg.LOWPUTC => r.lowcalls = 1 /\ r.result = r.lowret
       /\ r.outcome = "Dropped" => ~cfg.LOWPUTC

(* C4, amended: from interrupt context with the RawDescriptorSink bound,   *)
(* the call is handed to lowvsyslog, once, exactly when                    *)
(* CONFIG_ARCH_LOWPUTC is defined and the build is flat or the kernel      *)
(* pass; then every write goes to the low-level console and the call       *)
(* returns lowvsyslog's result.  Otherwise the message is dropped: no      *)
(* write, return 0.                                                        *)
C4_FallbackWhenAvailable ==
    LET r == run["interrupt"] IN
    (RawBound /\ Done("interrupt"))
    => IF cfg.LOWPUTC /\ cfg.FLAT_OR_KERNEL
       THEN /\ r.lowcalls = 1 /\ ~r.internal
            /\ r.result = r.lowret /\ r.vresult = r.lowret
            /\ \A i \in DOMAIN r.writes : r.writes[i].sink = "LowLevelConsoleSink"
            /\ r.outcome /= "Dropped"
       ELSE /\ r.lowcalls = 0 /\ ~r.internal
            /\ r.result = 0 /\ r.vresult = 0 /\ r.writes = <<>>
            /\ r.outcome = "Dropped"

\* the fallback wrote the message and its result came back
C4_Witness ==
    /\ RawBound /\ cfg.LOWPUTC /\ cfg.FLAT_OR_KERNEL
    /\ Done("interrupt")
    /\ run["interrupt"].lowcalls = 1
    /\ run["interrupt"].writes /= <<>>
    /\ run["interrupt"].lowret = 7
    /\ run["interrupt"].result = 7

(* C5: a delivered call returns, from vsyslog and from syslog, exactly the *)
(* result the formatted-output engine gave for the message -- positive,    *)
(* zero or negative -- and the result of the timestamp write is no part of *)
(* it.                                                                     *)
C5_ReturnsMessageResult ==
    \A c \in Context :
        LET r == run[c] IN
        (Done(c) /\ DeliveredTo(r))
        => /\ r.writes /= <<>>
           /\ r.writes[Len(r.writes)].kind = "message"
           /\ r.vresult = MessageResult(r)
           /\ r.result = r.vresult
           /\ env.mainRet = {r.result}

\* the timestamp write succeeded with 15 bytes and the message write failed
C5_Witness ==
    /\ Done("task")
    /\ run["task"].internal
    /\ Len(run["task"].writes) = 2
    /\ run["task"].writes[1].res = 15
    /\ run["task"].writes[2].res = -1
    /\ run["task"].result = -1

(* C6: with timestamping and a sink bound, when the hardware is not ready  *)
(* or the clock read fails, ts is (0, 0) and the prefix written is         *)
(* "[     0.000000]"; the clock is not read when the hardware is not       *)
(* ready; and the call still writes the message and returns its result.    *)
C6_ClockErrorGivesZeroPrefix ==
    \A c \in Context :
        LET r == run[c] IN
        (cfg.TIMESTAMP /\ r.ts /= NoTime /\ ClockBad)
        => /\ r.ts = [tv_sec |-> 0, tv_nsec |-> 0]
           /\ \A i \in WritesOf(r, "prefix") : r.writes[i].text = ZeroPrefix
           /\ env.hwReady = {FALSE} => r.clockReads = 0 /\ env.clock = {}
           /\ (Done(c) /\ r.stream /= "NullSink")
              => /\ Cardinality(WritesOf(r, "prefix")) = 1
                 /\ Cardinality(WritesOf(r, "message")) = 1
                 /\ r.result = MessageResult(r)
                 /\ r.outcome = "Delivered"

\* the hardware was ready, the clock read failed and left a time in ts; the
\* zero prefix and the message were written and 7 came back
C6_Witness ==
    /\ cfg.TIMESTAMP
    /\ env.hwReady = {TRUE}
    /\ \E ck \in env.clock : ck.ret < 0 /\ ck.ts.tv_sec = 12
    /\ Done("task")
    /\ run["task"].clockReads = 1
    /\ Len(run["task"].writes) = 2
    /\ run["task"].writes[1].text = ZeroPrefix
    /\ run["task"].result = 7

(* C7: with CONFIG_SYSLOG defined, or with no file descriptors, the call   *)
(* made from interrupt context and the call made from task context, given  *)
(* the same priority, mask, clock and sink answers, stand at the same      *)
(* statement, have issued the same writes and return the same value at     *)
(* every moment, and neither asks up_interrupt_context().                  *)
C7_ContextHasNoEffect ==
    (cfg.SYSLOG \/ ~cfg.NFILE)
    => /\ [run["task"] EXCEPT !.ctx = "interrupt"] = run["interrupt"]
       /\ run["task"].ctxReads = 0
       /\ run["interrupt"].ctxReads = 0

\* with CONFIG_SYSLOG and file descriptors both configured, the call was
\* delivered from interrupt context with its timestamp
C7_Witness ==
    /\ cfg.SYSLOG /\ cfg.NFILE
    /\ Done("interrupt")
    /\ Len(run["interrupt"].writes) = 2
    /\ run["interrupt"].writes[2].sink = "StructuredSink"
    /\ run["interrupt"].result = 7

(* C8: a delivered call with timestamping issues exactly the timestamp     *)
(* write and then the message write, both on the stream it set up; the     *)
(* message write follows whatever the timestamp write returned; without    *)
(* timestamping the message write is the only one.                         *)
C8_PrefixThenMessage ==
    \A c \in Context :
        LET r == run[c] IN
        /\ (Done(c) /\ DeliveredTo(r))
           => IF cfg.TIMESTAMP
              THEN /\ Len(r.writes) = 2
                   /\ r.writes[1].kind = "prefix"
                   /\ r.writes[2].kind = "message"
                   /\ r.writes[1].sink = r.stream
                   /\ r.writes[2].sink = r.stream
              ELSE /\ Len(r.writes) = 1
                   /\ r.writes[1].kind = "message"
                   /\ r.writes[1].sink = r.stream
        /\ (Done(c) /\ WritesOf(r, "prefix") /= {})
           => WritesOf(r, "message") /= {} /\ r.outcome = "Delivered"

\* the timestamp write failed and the message was written all the same
C8_Witness ==
    /\ cfg.TIMESTAMP
    /\ Done("task")
    /\ run["task"].internal
    /\ Len(run["task"].writes) = 2
    /\ run["task"].writes[1].res = -1
    /\ run["task"].writes[2].kind = "message"
    /\ run["task"].result = 7

(* C9: a call reads g_syslog_mask at most once and never writes it; the    *)
(* value it reads is one the mask held during the call (the value before   *)
(* or after a concurrent setlogmask), it is the current value when no      *)
(* setlogmask ran during the call, and the call's outcome is the outcome   *)
(* under that one value: delivered if the bit is set, suppressed with 0    *)
(* and no write if it is clear.                                            *)
C9_MaskReadOnceUncached ==
    /\ g_syslog_mask = maskHist[Len(maskHist)]
    /\ \A c \in Context :
        LET r == run[c] IN
        /\ Len(r.maskReads) <= 1
        /\ r.maskReads /= <<>>
           => /\ r.maskReads[1] \in Range(maskHist)
              /\ Len(maskHist) = 1 => r.maskReads[1] = g_syslog_mask
              /\ Done(c)
                 => IF Bit(r.maskReads[1], priority)
                    THEN /\ r.outcome = "Delivered"
                         /\ r.stream /= "NullSink" => WritesOf(r, "message") /= {}
                    ELSE /\ r.outcome = "SuppressedByMask"
                         /\ r.result = 0
                         /\ r.writes = <<>>

\* setlogmask cleared the priority's bit while the call was under way; the
\* call read the new value and was suppressed
C9_Witness ==
    /\ Len(maskHist) = 2
    /\ Bit(maskHist[1], priority) /\ ~Bit(maskHist[2], priority)
    /\ Done("task")
    /\ run["task"].maskReads = <<maskHist[2]>>
    /\ run["task"].outcome = "SuppressedByMask"
    /\ run["task"].steps > 0

(* C10: a call is never stuck and is over after at most seven statements;  *)
(* it reads the clock, writes the timestamp, writes the message and calls  *)
(* lowvsyslog at most once each; it ends Delivered, Dropped or             *)
(* SuppressedByMask; and it returns 0 or, once, the result of its one      *)
(* message write.                                                          *)
C10_RunsToCompletionNoRetry ==
    \A c \in Context :
        LET r == run[c] IN
        /\ r.steps <= 7
        /\ r.pc \notin {"idle", "done"} => ENABLED CallStep
        /\ r.clockReads <= 1
        /\ r.lowcalls <= 1
        /\ Cardinality(WritesOf(r, "prefix")) <= 1
        /\ Cardinality(WritesOf(r, "message")) <= 1
        /\ Done(c)
           => /\ r.outcome \in {"Delivered", "Dropped", "SuppressedByMask"}
              /\ r.outcome = "Delivered"
                 <=> (r.stream = "NullSink" \/ WritesOf(r, "message") /= {})
              /\ r.outcome /= "Delivered" => r.writes = <<>> /\ r.result = 0
              /\ r.outcome = "Dropped" <=> (r.maskReads = <<>>)
              /\ r.result /= 0
                 => WritesOf(r, "message") /= {} /\ r.result = MessageResult(r)

\* the hardware was not ready, the timestamp write failed, the message
\* write failed, and -1 came back after one attempt
C10_Witness ==
    /\ cfg.TIMESTAMP
    /\ Done("task")
    /\ env.hwReady = {FALSE}
    /\ run["task"].steps = 7
    /\ Len(run["task"].writes) = 2
    /\ run["task"].writes[1].res = -1
    /\ run["task"].writes[2].res = -1
    /\ run["task"].result = -1

====
